---- MODULE Spec2Model ----
(***************************************************************************)
(* A model of DLHDExtractor (src/dlhd_extractor.py): the resolution        *)
(* pipeline `extract`, the request executor `_make_robust_request`, the    *)
(* session manager `_get_session` and the cache store                      *)
(* `_load_cache` / `_save_cache`.                                          *)
(*                                                                         *)
(* The extractor runs on asyncio: a coroutine runs without interruption    *)
(* from one suspension point to the next.  The suspension points of the    *)
(* code are session.head (the cache probe), session.get / response.text    *)
(* (one request attempt), asyncio.sleep (between attempts) and             *)
(* session.close (teardown).  Every action below is one such              *)
(* uninterrupted run of one coroutine; `await` of a coroutine that does    *)
(* not itself suspend (_get_session, MockResponse.text / json) is part of  *)
(* the same action.                                                        *)
(***************************************************************************)
EXTENDS Integers, Sequences, FiniteSets, TLC

\* ---------------------------------------------------------------- bounds
\* Number of resolutions (calls of extract, or of _make_robust_request) a
\* behaviour holds, running concurrently or one after the other.
NumProcs == 2
\* Largest number of data-url player buttons on a stream page.
MaxLinks == 1
\* Largest number of ClientSession objects constructed in a behaviour.
MaxSessions == 3
\* Largest `retries` argument of a direct call of _make_robust_request.
MaxRetries == 3
\* Largest `initial_delay` argument of a direct call.
MaxDelay == 2
\* Largest number of faults the environment injects in a behaviour: a
\* request attempt that fails (an exception, or a status from 400 on), a
\* page that lacks what the pipeline looks for in it, a cache probe that
\* does not answer 200, a write of the cache file that fails.
MaxFaults == 4

\* Largest number of pieces a URL of the pattern check is put together from.
MaxPieces == 2

\* Largest number of faults in a behaviour in which a second coroutine is
\* called.
MaxParFaults == 2

\* Most data-url player buttons of a stream page, where one resolution
\* runs alone.
MaxButtons == 3

\* Most "/" at the end of auth_host and at the start of auth_php.
MaxSlashes == 2

\* ------------------------------------------------------ program constants
\* retries=3, the default of _make_robust_request, used by every hop.
DefaultRetries == 3
\* initial_delay=2, the default of _make_robust_request.
DefaultDelay == 2

Procs == 1..NumProcs

None == "None"

\* 2 ** n, as in `initial_delay * (2 ** attempt)`.
RECURSIVE Pow2(_)
Pow2(n) == IF n = 0 THEN 1 ELSE 2 * Pow2(n - 1)

\* ------------------------------------------------------------------ URLs
\* A string is a sequence of tokens; a token stands for the characters it
\* shows and no two tokens overlap.  Digits are the tokens "1" and "2".
Digits == {"1", "2"}
IsDigit(t) == t \in Digits

\* A channel ID is the captured run of digits; the empty string stands for
\* "no match" (None), which `if not channel_id` treats alike.
NoMatch == << >>

\* A pattern element: one token out of `toks`, or (with cap) the captured
\* group (\d+).
Tok(toks) == [cap |-> FALSE, toks |-> toks]
Group == [cap |-> TRUE, toks |-> {}]

\* The ordered pattern list of extract_channel_id; `atEnd` is a trailing `$`.
patterns ==
  << [elems |-> << Tok({"/"}), Tok({"premium"}), Group, Tok({"/"}), Tok({"mono.m3u8"}) >>,
      atEnd |-> TRUE],
     [elems |-> << Tok({"/"}), Tok({"watch", "stream", "cast", "player"}), Tok({"/"}),
                   Tok({"stream-"}), Group, Tok({".php"}) >>,
      atEnd |-> FALSE],
     [elems |-> << Tok({"watch"}), Tok({".php"}), Tok({"?id="}), Group >>,
      atEnd |-> FALSE],
     [elems |-> << Tok({"%2F", "/"}), Tok({"stream-"}), Group, Tok({".php"}) >>,
      atEnd |-> FALSE],
     [elems |-> << Tok({"stream-"}), Group, Tok({".php"}) >>,
      atEnd |-> FALSE] >>

\* The first position after the longest run of digits of s that starts at
\* position i.  (\d+) is greedy and the element after it never is a digit,
\* so the longest run is the only candidate.
RECURSIVE DigitRunEnd(_, _)
DigitRunEnd(s, i) ==
  IF i <= Len(s) /\ IsDigit(s[i]) THEN DigitRunEnd(s, i + 1) ELSE i

\* Match the elements k.. of pat against s from position i; cap is the
\* capture so far.  The result is the capture, or NoMatch.
RECURSIVE MatchFrom(_, _, _, _, _)
MatchFrom(pat, s, i, k, cap) ==
  IF k > Len(pat.elems)
    THEN IF pat.atEnd /\ i /= Len(s) + 1 THEN NoMatch ELSE cap
    ELSE IF pat.elems[k].cap
      THEN LET j == DigitRunEnd(s, i)
           IN  IF j = i THEN NoMatch
               ELSE MatchFrom(pat, s, j, k + 1, SubSeq(s, i, j - 1))
      ELSE IF i <= Len(s) /\ s[i] \in pat.elems[k].toks
             THEN MatchFrom(pat, s, i + 1, k + 1, cap)
             ELSE NoMatch

\* re.search(pattern, url_str).group(1): the match that starts leftmost.
RECURSIVE SearchFrom(_, _, _)
SearchFrom(pat, s, i) ==
  IF i > Len(s) THEN NoMatch
  ELSE LET m == MatchFrom(pat, s, i, 1, NoMatch)
       IN  IF m /= NoMatch THEN m ELSE SearchFrom(pat, s, i + 1)

re_search(pat, s) == SearchFrom(pat, s, 1)

\* The loop of extract_channel_id from pattern number k on.
RECURSIVE ChannelIdFrom(_, _)
ChannelIdFrom(url_str, k) ==
  IF k > Len(patterns) THEN NoMatch
  ELSE LET match == re_search(patterns[k], url_str)
       IN  IF match /= NoMatch THEN match ELSE ChannelIdFrom(url_str, k + 1)

\* A plausible slip: the pattern list walked from its end.
RECURSIVE ChannelIdBackFrom(_, _)
ChannelIdBackFrom(url_str, k) ==
  IF k < 1 THEN NoMatch
  ELSE LET match == re_search(patterns[k], url_str)
       IN  IF match /= NoMatch THEN match ELSE ChannelIdBackFrom(url_str, k - 1)

extract_channel_id_reversed(url_str) == ChannelIdBackFrom(url_str, Len(patterns))

extract_channel_id(url_str) == ChannelIdFrom(url_str, 1)

\* The watch URLs the callers of a resolution pass: one whose first
\* pattern matches, one that two patterns match with different captures,
\* one that no pattern matches.
Urls ==
  { << "/", "premium", "1", "/", "mono.m3u8" >>,
    << "watch", ".php", "?id=", "2", "x", "%2F", "stream-", "1", ".php" >>,
    << "/", "premium", "1", "/", "mono.m3u8", "x" >> }

\* The pieces the URLs of the pattern check are put together from: one
\* per pattern, one digit (that lengthens a run of digits before it), one
\* piece that is in no pattern.
Pieces ==
  { << "/", "premium", "1", "/", "mono.m3u8" >>,
    << "/", "watch", "/", "stream-", "2", ".php" >>,
    << "watch", ".php", "?id=", "1" >>,
    << "%2F", "stream-", "2", "1", ".php" >>,
    << "stream-", "1", "2", ".php" >>,
    << "2" >>,
    << "x" >> }

\* Every URL of at most MaxPieces pieces.
RECURSIVE UrlsOf(_)
UrlsOf(n) ==
  IF n = 0 THEN { << >> }
  ELSE UrlsOf(n - 1) \cup { u \o f : u \in UrlsOf(n - 1), f \in Pieces }

AllUrls == UrlsOf(MaxPieces)

\* ------------------------------------------------------------- cache store
\* A ResolvedStream as extract returns and caches it: the manifest URL and
\* the iframe URL its request headers and auth_data carry.
Stream(destination_url, iframe_url) ==
  [destination_url |-> destination_url, iframe_url |-> iframe_url]

NoStream == Stream(<< >>, None)

\* Entries a cache file left by an earlier run may hold: a complete one and
\* one with no (or an empty) destination_url.
OldStream == Stream(<< "https://", "old", "new.newkso.ru/", "old", "/", "ck", "/mono.m3u8" >>, "ifrA")
NoDestStream == Stream(<< >>, "ifrA")

EmptyMap == [c \in {} |-> NoStream]
\* A plausible slip: the map is replaced by the one entry.
Put_alone(m, k, v) == [c \in {k} |-> v]
Put(m, k, v) == [c \in DOMAIN m \cup {k} |-> IF c = k THEN v ELSE m[c]]
Del(m, k) == [c \in DOMAIN m \ {k} |-> m[c]]

\* The backing file.  Its content is what decoding it gives: kind says how
\* far open / read / base64.b64decode / .decode('utf-8') / json.loads get,
\* val is the JSON object at the end ("json" only).
\*   missing     os.path.exists is false
\*   unreadable  open or read raises IOError
\*   not_text    the bytes of the file are not UTF-8 (read raises UnicodeDecodeError)
\*   empty       the file is empty
\*   bad_base64  b64decode raises binascii.Error (incorrect padding)
\*   bad_utf8    the decoded bytes are not UTF-8
\*   bad_json    the decoded text is not JSON
\*   json        Base64 of UTF-8 of a JSON object
FileKinds ==
  {"missing", "unreadable", "not_text", "empty", "bad_base64", "bad_utf8", "bad_json", "json"}
File(kind, val) == [kind |-> kind, val |-> val]

\* json.dumps, .encode('utf-8'), base64.b64encode, f.write of _save_cache.
Encoded(cache) == File("json", cache)

\* The exceptions the except clause of _load_cache catches: IOError and
\* json.JSONDecodeError.
LoadCaught == {"unreadable", "bad_json"}

\* _load_cache: the map returned, or raised = TRUE when an exception
\* leaves it (binascii.Error and UnicodeDecodeError are ValueErrors, which
\* the except clause does not name).
load_with(caught, file) ==
  CASE file.kind \in {"missing", "empty"} -> [raised |-> FALSE, value |-> EmptyMap]
    [] file.kind = "json" -> [raised |-> FALSE, value |-> file.val]
    [] file.kind \in caught -> [raised |-> FALSE, value |-> EmptyMap]
    [] OTHER -> [raised |-> TRUE, value |-> EmptyMap]

_load_cache(file) == load_with(LoadCaught, file)

\* The channel IDs and entries of the cache files of the load check.
FileIds == { << "1" >>, << "2" >> }
FileStreams ==
  { OldStream, NoDestStream }
    \cup { Stream(<< "https://", k, ".m3u8" >>, i) : k \in {"a", "b"}, i \in {"ifrA", "ifrB"} }
FileMaps ==
  UNION { [ids -> FileStreams] : ids \in SUBSET FileIds }

\* Every cache file of the load check.
AllFiles ==
  { File(k, EmptyMap) : k \in FileKinds \ {"json"} }
    \cup { File("json", m) : m \in FileMaps }

\* What open(..., 'w') and f.write do in _save_cache.
WriteOutcomes == {"ok", "open_fails", "write_fails"}

\* ------------------------------------------------------------------ errors
\* An exception: its type, str(e) as the sequence of the message parts that
\* the wrapping handlers chain, and origin, the number of the endpoint
\* whose attempt raised it (0: none).  The message of an exception that an
\* endpoint attempt raises is cut down to "try_endpoint": what tells two
\* of them apart is origin.
Error(type, text, origin) == [type |-> type, text |-> text, origin |-> origin]
NoError == Error("None", << >>, 0)
ExtractorError(text, origin) == Error("ExtractorError", text, origin)
EndpointError(ep) == ExtractorError(<< "try_endpoint" >>, ep)

\* ------------------------------------------------------------- the pipeline
endpoints == << "stream/", "cast/", "player/", "watch/" >>

\* The iframe a channel's player pages embed, after normalisation: the
\* upstream site serves one iframe per channel.
IframeOf(channel_id) == IF channel_id = << "1" >> THEN "ifrA" ELSE "ifrB"
ServerKeys == {"top1/cdn", "abc"}
AuthFields == {"channel_key", "auth_ts", "auth_rnd", "auth_sig", "auth_host", "auth_php"}
channel_key == "ck"

\* The five fields a decoder strategy supplies (b_ts, b_rnd, b_sig, b_host,
\* b_script of a bundle; the variables c, d, e, a, b of the legacy format).
BundleFields == AuthFields \ {"channel_key"}

\* What extract_xjz_format or extract_bundle_format returns for a page:
\* keys are the fields whose key holds a non-empty value, other says
\* whether the object holds anything else (another key, or one of the five
\* with an empty value).  No match, an exception (None) and the empty
\* object are NoBundle: `if xjz_data:` treats them alike.
Bundle(keys, other) == [keys |-> keys, other |-> other]
NoBundle == Bundle({}, FALSE)

\* `if xjz_data:`, `if bundle_data:`
Truthy(b) == b.keys /= {} \/ b.other

\* An iframe page, by what the decoders get out of it: key, whether a
\* channel-key pattern matches; xjz and bundle, the objects of the two
\* bundle formats; legacy, the fields extract_var_old_format finds.
IframePage(key, xjz, bundle, legacy) ==
  [key |-> key, xjz |-> xjz, bundle |-> bundle, legacy |-> legacy]

\* The strategy that supplies each field, from the winner w of the
\* strategies tried, whose non-empty fields are keys.
Supplied(w, keys) == [f \in BundleFields |-> IF f \in keys THEN w ELSE "none"]

\* A plausible slip: what the XJZ object lacks is taken from the BUNDLE
\* object, and what both lack from the legacy variables.
decode_fields_merged(page) ==
  [ran |-> << "xjz", "bundle", "legacy" >>,
   src |-> [f \in BundleFields |->
              IF f \in page.xjz.keys THEN "xjz"
              ELSE IF f \in page.bundle.keys THEN "bundle"
              ELSE IF f \in page.legacy THEN "legacy" ELSE "none"]]

\* The strategy cascade: ran, the strategies run, in order; src, the
\* strategy each field has its value from ("none": the field is unset).
decode_fields(page) ==
  IF Truthy(page.xjz)
    THEN [ran |-> << "xjz" >>, src |-> Supplied("xjz", page.xjz.keys)]
  ELSE IF Truthy(page.bundle)
    THEN [ran |-> << "xjz", "bundle" >>, src |-> Supplied("bundle", page.bundle.keys)]
  ELSE [ran |-> << "xjz", "bundle", "legacy" >>, src |-> Supplied("legacy", page.legacy)]

\* A plausible slip: a field counts as set when any of the three formats
\* holds it, whichever strategy won.
found_fields_any_strategy(page) ==
  { f \in BundleFields : f \in page.xjz.keys \cup page.bundle.keys \cup page.legacy }
    \cup (IF page.key THEN {"channel_key"} ELSE {})

\* The fields that are set after the channel-key search and the cascade.
found_fields(page) ==
  { f \in BundleFields : decode_fields(page).src[f] /= "none" }
    \cup (IF page.key THEN {"channel_key"} ELSE {})

\* A plausible slip: the test of channel_key left out.
missing_params_no_key(found) == (AuthFields \ found) \ {"channel_key"}

\* missing_params, as a set.
missing_params(found) == AuthFields \ found

\* The iframe pages the upstream site serves in a resolution: complete in
\* one of the three formats, empty, or with one field missing.
IframePages ==
  { IframePage(TRUE, Bundle(BundleFields, FALSE), NoBundle, {}),
    IframePage(TRUE, NoBundle, Bundle(BundleFields, TRUE), {}),
    IframePage(TRUE, NoBundle, NoBundle, BundleFields),
    IframePage(FALSE, NoBundle, NoBundle, BundleFields),
    IframePage(FALSE, NoBundle, NoBundle, {}) }
    \cup { IframePage(TRUE, Bundle(BundleFields \ {x}, FALSE), NoBundle, BundleFields) :
             x \in BundleFields }

\* HTTP statuses a server answers with; raise_for_status raises from 400 on.
Statuses == {200, 399, 400, 503}

\* The body of a response, by what the pipeline reads off it:
\*   links       the number of data-url player buttons (stream page)
\*   anchor      whether the legacy anchor + "Player 2" button is there
\*   iframe      whether a player page holds an iframe source
\*   found       the auth fields the decoder finds non-empty (iframe page)
\*   server_key  the server_key of the lookup JSON, "" when absent or
\*               empty, "not json" when json.loads raises
Body(links, anchor, iframe, found, server_key) ==
  [links |-> links, anchor |-> anchor, iframe |-> iframe, found |-> found,
   server_key |-> server_key]
BlankBody == Body(0, FALSE, FALSE, {}, "")

BodiesUpTo(hop, links) ==
  CASE hop = "stream" ->
         { Body(n, a, FALSE, {}, "") : n \in 0..links, a \in BOOLEAN }
    [] hop \in {"player", "anchor"} ->
         { Body(0, FALSE, i, {}, "") : i \in BOOLEAN }
    [] hop = "iframe" ->
         { Body(0, FALSE, FALSE, found_fields(pg), "") : pg \in IframePages }
    [] hop = "lookup" ->
         { Body(0, FALSE, FALSE, {}, k) : k \in ServerKeys \cup {"", "not json"} }
    [] OTHER -> {BlankBody}

Bodies(hop) == BodiesUpTo(hop, MaxLinks)

\* What one attempt of session.get ends with: a transport-class exception
\* (the first except clause), another exception raised before a response is
\* there, or a response.
Outcome(kind, status, body) == [kind |-> kind, status |-> status, body |-> body]
OutcomesUpTo(hop, links) ==
  {Outcome("transport", 0, BlankBody), Outcome("other", 0, BlankBody)}
    \cup { Outcome("response", st, BlankBody) : st \in { x \in Statuses : x >= 400 } }
    \cup { Outcome("response", st, b) : st \in { x \in Statuses : x < 400 },
                                        b \in BodiesUpTo(hop, links) }

Outcomes(hop) == OutcomesUpTo(hop, MaxLinks)

\* Whether the body lacks what the hop looks for in it.
Lacking(hop, b) ==
  CASE hop = "stream" -> b.links = 0 /\ ~b.anchor
    [] hop \in {"player", "anchor"} -> ~b.iframe
    [] hop = "iframe" -> missing_params(b.found) /= {}
    [] hop = "lookup" -> b.server_key \in {"", "not json"}
    [] OTHER -> FALSE

\* The faults in one outcome of an attempt.
Cost(hop, out) ==
  IF out.kind /= "response" \/ out.status >= 400 \/ Lacking(hop, out.body) THEN 1 ELSE 0

\* A plausible slip: every key that starts like the CDN key takes the
\* fixed CDN path.
clean_m3u8_url_cdn_prefix(server_key, ck) ==
  IF server_key \in {"top1/cdn", "top1/cdn2"}
    THEN << "https://", "top1", ".newkso.ru/", "top1/cdn", "/", ck, "/mono.m3u8" >>
    ELSE << "https://", server_key, "new.newkso.ru/", server_key, "/", ck, "/mono.m3u8" >>

\* The final manifest URL of try_endpoint.
clean_m3u8_url(server_key, ck) ==
  IF server_key = "top1/cdn"
    THEN << "https://", "top1", ".newkso.ru/", "top1/cdn", "/", ck, "/mono.m3u8" >>
    ELSE << "https://", server_key, "new.newkso.ru/", server_key, "/", ck, "/mono.m3u8" >>

\* ------------------------------------------------- strings, auth URL, headers
\* A string is the sequence of its pieces; "/" and " " are pieces of their
\* own, and no other piece holds a "/" the join looks at.
endswith(s, x) == Len(s) > 0 /\ s[Len(s)] = x
startswith(s, x) == Len(s) > 0 /\ s[1] = x

RECURSIVE lstrip(_, _)
lstrip(s, x) == IF startswith(s, x) THEN lstrip(Tail(s), x) ELSE s

RECURSIVE rstrip(_, _)
rstrip(s, x) == IF endswith(s, x) THEN rstrip(SubSeq(s, 1, Len(s) - 1), x) ELSE s

\* str.strip(), of the blanks
strip(s) == rstrip(lstrip(s, " "), " ")

\* The query of the auth URL; the values are those of the decoded fields.
auth_query ==
  << "?channel_id=", channel_key, "&ts=", "ts", "&rnd=", "rnd", "&sig=", "sig" >>

\* auth_url, from auth_host and auth_php: a bare a.php becomes /auth.php,
\* then the two are joined and the query appended.
auth_url(auth_host, auth_php) ==
  LET php == IF lstrip(strip(auth_php), "/") = << "a.php" >>
               THEN << "/", "auth.php" >>
               ELSE auth_php
      joined ==
        IF endswith(auth_host, "/") /\ startswith(php, "/")
          THEN SubSeq(auth_host, 1, Len(auth_host) - 1) \o php
        ELSE IF ~endswith(auth_host, "/") /\ ~startswith(php, "/")
          THEN auth_host \o << "/" >> \o php
        ELSE auth_host \o php
  IN  joined \o auth_query

\* s, n times
RECURSIVE Times(_, _)
Times(s, n) == IF n = 0 THEN << >> ELSE s \o Times(s, n - 1)

\* The auth_host values: a host followed by up to MaxSlashes "/".
AuthHosts == { << "https://auth.test" >> \o Times(<< "/" >>, n) : n \in 0..MaxSlashes }

\* The auth_php values: a script name after up to MaxSlashes "/", with or
\* without blanks around it.
AuthPhps ==
  { Times(<< " " >>, l) \o Times(<< "/" >>, n) \o << name >> \o Times(<< " " >>, t) :
      l \in 0..1, n \in 0..MaxSlashes, name \in {"auth.php", "a.php"}, t \in 0..1 }

\* A URL as urlparse splits it; netloc is a sequence of pieces.
Url(scheme, netloc, path) == [scheme |-> scheme, netloc |-> netloc, path |-> path]

\* The URL as a string.
UrlString(u) == << u.scheme, "://" >> \o u.netloc \o << u.path >>

\* f"{parsed_url.scheme}://{parsed_url.netloc}"
SchemeHost(u) == << u.scheme, "://" >> \o u.netloc

\* "newkso.ru" in parsed_url.netloc
IsMediaHost(u) == \E i \in 1..Len(u.netloc) : u.netloc[i] = "newkso.ru"

\* The User-Agent the header policy sets.
UserAgent == << "Mozilla/5.0 (Macintosh; Intel Mac OS X 10_15_7) Chrome/136.0.0.0" >>

\* dict.update: d with the entries of e.
update(d, e) ==
  [k \in DOMAIN d \cup DOMAIN e |-> IF k \in DOMAIN e THEN e[k] ELSE d[k]]

\* _get_headers_for_url.  ctx is self._iframe_context: << >> when it is
\* None or empty, else the one URL.  The result is a copy; base_headers and
\* self._iframe_context are not assigned.
_get_headers_for_url(ctx, url, base_headers) ==
  IF IsMediaHost(url)
    THEN IF ctx /= << >>
           THEN update(base_headers,
                       [k \in {"User-Agent", "Referer", "Origin"} |->
                          CASE k = "User-Agent" -> UserAgent
                            [] k = "Referer" -> UrlString(ctx[1])
                            [] k = "Origin" -> << "https", "://" >> \o ctx[1].netloc])
           ELSE update(base_headers,
                       [k \in {"User-Agent", "Referer", "Origin"} |->
                          IF k = "User-Agent" THEN UserAgent ELSE SchemeHost(url)])
    ELSE base_headers

\* The iframe contexts, the target URLs and the base headers of the calls
\* of the header policy.
Contexts ==
  { << >>, << Url("https", << "ifr.test" >>, "/embed/1") >>,
    << Url("http", << "ifr.test" >>, "/embed/1") >> }

Targets ==
  { Url("https", << "top1", ".", "newkso.ru" >>, "/top1/cdn/ck/mono.m3u8"),
    Url("http", << "abc", "new.", "newkso.ru" >>, "/auth.php"),
    Url("https", << "daddylive.sx" >>, "/"),
    Url("https", << "ifr.test" >>, "/server_lookup.php") }

Dict(keys) == [k \in keys |-> << "base ", k >>]

BaseHeaders ==
  { Dict({}), Dict({"User-Agent"}), Dict({"User-Agent", "Referer", "Origin"}),
    Dict({"User-Agent", "Referer", "Origin", "Accept"}) }

\* The iframe pages the decoders are applied to: every combination of
\* what the three formats hold.
FieldSets == { {}, BundleFields, {"auth_ts"}, BundleFields \ {"auth_sig"} }
Bundles == { Bundle(k, o) : k \in FieldSets, o \in BOOLEAN }
AllPages ==
  { IframePage(k, x, b, l) : k \in BOOLEAN, x \in Bundles, b \in Bundles, l \in FieldSets }

\* The server keys and channel keys the URL template is applied to.
AllServerKeys == {"top1/cdn", "top1/cdn2", "top1", "abc"}
ChannelKeys == {"ck", "premium1"}

\* The calls of the pure steps of the pipeline.
NoCall == [fn |-> "none"]
Calls ==
  { [fn |-> "decode", page |-> pg] : pg \in AllPages }
    \cup { [fn |-> "auth_url", auth_host |-> h, auth_php |-> s] :
             h \in AuthHosts, s \in AuthPhps }
    \cup { [fn |-> "clean_m3u8_url", server_key |-> k, channel_key |-> c] :
             k \in AllServerKeys, c \in ChannelKeys }
    \cup { [fn |-> "_get_headers_for_url", ctx |-> c, url |-> u, base_headers |-> b] :
             c \in Contexts, u \in Targets, b \in BaseHeaders }


\* ------------------------------------------------------------------- state
VARIABLES
  session,            \* self.session: 0 (None) or the number of a ClientSession
  closed,             \* the ClientSessions whose `closed` is true
  n_sessions,         \* ClientSessions constructed so far
  session_lock,       \* self._session_lock: the coroutine that holds it, 0: free
  built_unlocked,     \* the ClientSessions constructed while the lock was free
  cached_base_url,    \* self._cached_base_url: None or "https://daddylive.sx/"
  iframe_context,     \* self._iframe_context: None or an iframe URL
  stream_data_cache,  \* self._stream_data_cache
  cache_file,         \* the content of self.cache_file
  init_raised,        \* whether an exception left __init__
  last_write,         \* how the last _save_cache ended: "none", "ok", "failed"
  faults,             \* faults the environment has injected so far
  proc,               \* the coroutines: their position and locals
  call,               \* the pure step called, with its arguments
  ret                 \* << >>, or the one value the pure step returned

vars == << session, closed, n_sessions, session_lock, built_unlocked, cached_base_url, iframe_context,
           stream_data_cache, cache_file, init_raised, last_write, faults, proc,
           call, ret >>

base_url == "https://daddylive.sx/"

\* A coroutine that has not been called.  pc is its position:
\*   idle     not called
\*   head     suspended in session.head (the cache probe)
\*   get      suspended in session.get / response.text of one attempt
\*   sleep    suspended in asyncio.sleep between two attempts
\*   closing  suspended in session.close
\*   done     returned (result; status for a direct request)
\*   raised   an exception left it (error)
\* The locals keep the names of the code; probe, found, got, n_head, n_get, ep_log
\* and log record what the coroutine did and are read by no action:
\*   probe    how the cache probe ended in the last step: "none", "valid"
\*            (status 200), "stale" (another status), "error" (an
\*            exception), "no_url" (no destination_url to probe)
\*   found    the fields the decoder found set in the iframe page, until
\*            the step after the one in which the attempt ends
\*   got      whether this call issued a GET
\*   n_head   HEAD requests of the cache probe under way
\*   n_get    GET attempts the current request made
\*   ep_log   the endpoints whose stream page this call requested, in order
\*   log      the failed attempts of a direct request, in order: the kind
\*            of failure and the delay slept after it (0: none)
\*   ctx      the self._iframe_context that _get_headers_for_url read for
\*            the request under way ("unread": it read none)
IdleProc ==
  [pc |-> "idle", url |-> << >>, channel_id |-> NoMatch, probe |-> "none",
   cached_data |-> NoStream, endpoint |-> 0, hop |-> "none",
   attempt |-> 0, retries |-> 0, initial_delay |-> 0, using |-> 0,
   has_anchor |-> FALSE, links_left |-> 0,
   iframe_url |-> None, found |-> {}, last_exc |-> NoError,
   result |-> NoStream, status |-> 0, error |-> NoError,
   got |-> FALSE, n_head |-> 0, n_get |-> 0, ep_log |-> << >>, log |-> << >>,
   ctx |-> "unread"]

\* The whole state as one value, so that a handler is an operator from
\* states to states.  Three fields are of the step, not of the state:
\* overflow marks a step that needs more than MaxSessions sessions,
\* new_faults counts the faults of the step, saved says that the step
\* called _save_cache.
State ==
  [session |-> session, closed |-> closed, n_sessions |-> n_sessions,
   session_lock |-> session_lock, built_unlocked |-> built_unlocked,
   cached_base_url |-> cached_base_url, iframe_context |-> iframe_context,
   stream_data_cache |-> stream_data_cache, cache_file |-> cache_file,
   last_write |-> last_write, proc |-> proc, overflow |-> FALSE, new_faults |-> 0, saved |-> FALSE]

\* The coroutines that have been called in st.
Called(st) == { p \in Procs : st.proc[p].pc /= "idle" }

\* The coroutines that are suspended in st.
Suspended(st) == { p \in Procs : st.proc[p].pc \notin {"idle", "done", "raised"} }

\* The step to st, within the bounds.  in_turn: the callers call one
\* coroutine at a time, so that at most one is suspended.
BecomesIn(st, in_turn) ==
  /\ ~st.overflow
  /\ in_turn => Cardinality(Suspended(st)) <= 1
  /\ faults + st.new_faults
        <= (IF ~in_turn /\ Cardinality(Called(st)) > 1 THEN MaxParFaults ELSE MaxFaults)
  /\ faults' = faults + st.new_faults
  /\ session' = st.session
  /\ closed' = st.closed
  /\ n_sessions' = st.n_sessions
  /\ session_lock' = st.session_lock
  /\ built_unlocked' = st.built_unlocked
  /\ cached_base_url' = st.cached_base_url
  /\ iframe_context' = st.iframe_context
  /\ stream_data_cache' = st.stream_data_cache
  /\ cache_file' = st.cache_file
  /\ last_write' = st.last_write
  /\ init_raised' = init_raised
  /\ proc' = st.proc
  /\ UNCHANGED << call, ret >>

Becomes(st) == BecomesIn(st, FALSE)

\* --------------------------------------------------------- session manager
\* _get_session: the live session, or a new one when there is none or the
\* current one is closed.  The coroutine holds no await that suspends, so
\* it runs within the action of its caller.  It does not acquire
\* self._session_lock, and nothing else does.
_get_session(st) ==
  IF st.session = 0 \/ st.session \in st.closed
    THEN IF st.n_sessions >= MaxSessions
           THEN [st EXCEPT !.overflow = TRUE]
           ELSE [st EXCEPT !.session = st.n_sessions + 1,
                           !.n_sessions = st.n_sessions + 1,
                           !.built_unlocked =
                              IF st.session_lock = 0
                                THEN @ \cup {st.n_sessions + 1} ELSE @]
    ELSE st

\* _save_cache: the file gets the encoded map; an IOError is logged and
\* swallowed (open fails: the file is as before; write fails: open has
\* truncated it).
_save_cache(st, w) ==
  CASE w = "ok" ->
         [st EXCEPT !.cache_file = Encoded(st.stream_data_cache),
                    !.last_write = "ok", !.saved = TRUE]
    [] w = "open_fails" ->
         [st EXCEPT !.last_write = "failed", !.new_faults = @ + 1, !.saved = TRUE]
    [] OTHER ->
         [st EXCEPT !.cache_file = File("empty", EmptyMap),
                    !.last_write = "failed", !.new_faults = @ + 1, !.saved = TRUE]

\* ------------------------------------------------------- leaving extract
\* What stays of a coroutine that has ended: what it returned or raised,
\* how its probe ended if that was its last step, and the fields of its
\* last attempt.
Ended(pr) == [IdleProc EXCEPT !.probe = pr.probe, !.found = pr.found]

\* The outer `except Exception as e` of extract: whatever is raised inside
\* leaves as ExtractorError("Estrazione DLHD completamente fallita: {e}").
extract_raise(st, p, e) ==
  [st EXCEPT !.proc[p] =
     [Ended(st.proc[p]) EXCEPT !.pc = "raised",
        !.error = ExtractorError(<< "Estrazione DLHD completamente fallita" >> \o e.text,
                                 e.origin)]]

extract_return(st, p, result) ==
  [st EXCEPT !.proc[p] = [Ended(st.proc[p]) EXCEPT !.pc = "done", !.result = result]]

\* --------------------------------------------------------------- teardown
\* A plausible slip: close() also forgets the iframe context.
close_forgets_context(st) ==
  IF st.session /= 0 /\ st.session \notin st.closed
    THEN [st EXCEPT !.closed = @ \cup {st.session}, !.iframe_context = None]
    ELSE [st EXCEPT !.iframe_context = None]

\* close(): closes the session when there is a live one, and swallows what
\* session.close() raises.  self.session stays as it is.
close(st) ==
  IF st.session /= 0 /\ st.session \notin st.closed
    THEN [st EXCEPT !.closed = @ \cup {st.session}]
    ELSE st

\* ------------------------------------------------------- request executor
\* A plausible slip: the same delay after every transport failure.
backoff_delay_flat(initial_delay, attempt) == initial_delay

\* A plausible slip: backoff after the other failures too.
fixed_delay_doubling(initial_delay, attempt) == initial_delay * Pow2(attempt)

\* A plausible slip: only server errors count as failures.
raise_for_status_5xx(status) == status >= 500

\* `initial_delay * (2 ** attempt)`, the sleep after a transport failure.
backoff_delay(initial_delay, attempt) == initial_delay * Pow2(attempt)

\* `initial_delay`, the sleep after any other failure.
fixed_delay(initial_delay, attempt) == initial_delay

\* `attempt == retries - 1`
is_last_attempt(attempt, retries) == attempt = retries - 1

\* response.raise_for_status(): raises ClientResponseError from 400 on.
raise_for_status(status) == status >= 400

\* The body of the for loop up to the suspension in session.get.
IssueGet(st, p) ==
  LET s1 == _get_session(st)
  IN  [s1 EXCEPT !.proc[p].pc = "get", !.proc[p].using = s1.session,
                 !.proc[p].n_get = @ + 1, !.proc[p].got = TRUE]

\* The header policy reads self._iframe_context for a URL on the media
\* domain.  Of the hosts the upstream serves, the auth host is on it; the
\* site, the iframe host and its server lookup are not.
IsMediaHop(hop) == hop = "auth"

\* A plausible slip: the headers of every hop after the iframe discovery
\* are derived from the iframe URL of the attempt.
context_read_own(st, p, hop) ==
  IF IsMediaHop(hop) THEN st.proc[p].iframe_url ELSE "unread"

\* What line 120 reads of self._iframe_context, once for all attempts of
\* the request.
context_read(st, p, hop) ==
  IF IsMediaHop(hop) THEN st.iframe_context ELSE "unread"

\* _make_robust_request(url, headers, retries, initial_delay) up to the
\* first suspension; hop says which request of the pipeline it is.
_make_robust_request(st, p, hop, retries, initial_delay) ==
  IssueGet([st EXCEPT !.proc[p].hop = hop, !.proc[p].retries = retries,
                      !.proc[p].initial_delay = initial_delay,
                      !.proc[p].attempt = 0, !.proc[p].n_get = 0,
                      !.proc[p].log = << >>,
                      !.proc[p].ctx = context_read(st, p, hop)], p)

\* The attempt under way failed: kind says how, slept is the delay of the
\* sleep that follows.  The log is kept for the requests a caller makes
\* itself.
Failed(st, p, kind, slept) ==
  IF st.proc[p].hop = "direct"
    THEN [st EXCEPT !.proc[p].log = Append(@, [kind |-> kind, slept |-> slept])]
    ELSE st

\* await asyncio.sleep(delay)
sleep(st, p, delay) == [st EXCEPT !.proc[p].pc = "sleep", !.proc[p].using = 0]

\* -------------------------------------------------------------- try_endpoint
\* try_endpoint(baseurl, endpoint, channel_id) up to its first suspension:
\* the request of the stream page.
try_endpoint(st, p, ep) ==
  _make_robust_request(
    [st EXCEPT !.proc[p].endpoint = ep, !.proc[p].ep_log = Append(@, ep),
               !.proc[p].has_anchor = FALSE, !.proc[p].links_left = 0,
               !.proc[p].iframe_url = None],
    p, "stream", DefaultRetries, DefaultDelay)

\* What follows the endpoint loop of extract when no endpoint succeeded.
all_endpoints_failed(st, p) ==
  LET last_exc == st.proc[p].last_exc
  IN  extract_raise(st, p,
        IF last_exc /= NoError
          THEN ExtractorError(<< "Tutti gli endpoint DLHD hanno fallito. Ultimo errore" >>
                                \o last_exc.text, last_exc.origin)
          ELSE ExtractorError(<< "Tutti gli endpoint DLHD hanno fallito senza dettagli." >>, 0))

\* A plausible slip: last_exc keeps the first failure.
endpoint_failed_keep_first(st, p, exc) ==
  LET s1 == [st EXCEPT !.proc[p].last_exc = IF @ = NoError THEN exc ELSE @]
  IN  IF s1.proc[p].endpoint < Len(endpoints)
        THEN try_endpoint(s1, p, s1.proc[p].endpoint + 1)
        ELSE all_endpoints_failed(s1, p)

\* The `except Exception as exc` of the endpoint loop of extract: the
\* attempt of the current endpoint raised exc; the loop goes on.
endpoint_failed(st, p, exc) ==
  LET s1 == [st EXCEPT !.proc[p].last_exc = exc]
  IN  IF s1.proc[p].endpoint < Len(endpoints)
        THEN try_endpoint(s1, p, s1.proc[p].endpoint + 1)
        ELSE all_endpoints_failed(s1, p)

\* A plausible slip: the cache saved before the result is stored.
endpoint_succeeded_save_first(st, p, result, w) ==
  LET s1 == _save_cache(st, w)
  IN  extract_return(
        [s1 EXCEPT !.stream_data_cache = Put(@, st.proc[p].channel_id, result)], p, result)

\* The success branch of the endpoint loop: store, save, return.
endpoint_succeeded(st, p, result, w) ==
  extract_return(
    _save_cache([st EXCEPT !.stream_data_cache = Put(@, st.proc[p].channel_id, result)], w),
    p, result)

\* Any raise of try_endpoint, as the endpoint loop gets it.
try_endpoint_raises(st, p) == endpoint_failed(st, p, EndpointError(st.proc[p].endpoint))

\* The legacy anchor + "Player 2" button fallback, taken when no data-url
\* link gave an iframe: no anchor is a failure of the attempt.
fallback_anchor(st, p) ==
  IF ~st.proc[p].has_anchor
    THEN try_endpoint_raises(st, p)
    ELSE _make_robust_request(st, p, "anchor", DefaultRetries, DefaultDelay)

\* The loop over player_links: the next link, or the fallback after the
\* last one.
next_player(st, p) ==
  IF st.proc[p].links_left > 0
    THEN _make_robust_request([st EXCEPT !.proc[p].links_left = @ - 1], p, "player",
                              DefaultRetries, DefaultDelay)
    ELSE fallback_anchor(st, p)

\* Iframe normalisation, self._iframe_context = iframe_url, and the request
\* of the iframe page.
found_iframe(st, p) ==
  LET iframe_url == IframeOf(st.proc[p].channel_id)
  IN  _make_robust_request([st EXCEPT !.iframe_context = iframe_url,
                                      !.proc[p].iframe_url = iframe_url],
                           p, "iframe", DefaultRetries, DefaultDelay)

\* get_daddylive_base_url and the start of the endpoint loop.  The probe
\* is behind: cached_data is read no more.
resolve(st, p) ==
  LET s1 == [st EXCEPT !.proc[p].cached_data = NoStream, !.proc[p].n_head = 0]
  IN  IF s1.cached_base_url /= None
        THEN try_endpoint(s1, p, 1)
        ELSE _make_robust_request(s1, p, "landing", DefaultRetries, DefaultDelay)

\* ------------------------------------------------- the end of a request
\* _make_robust_request returns a response: what its caller does with it
\* up to the next suspension.
request_ok(st, p, out, w) ==
  LET pr == st.proc[p]
      b == out.body
  IN  CASE pr.hop = "direct" ->
             [st EXCEPT !.proc[p].pc = "done", !.proc[p].status = out.status,
                        !.proc[p].using = 0]
        [] pr.hop = "landing" ->
             try_endpoint([st EXCEPT !.cached_base_url = base_url], p, 1)
        [] pr.hop = "stream" ->
             next_player([st EXCEPT !.proc[p].has_anchor = b.anchor,
                                    !.proc[p].links_left = b.links], p)
        [] pr.hop = "player" ->
             IF b.iframe THEN found_iframe(st, p) ELSE next_player(st, p)
        [] pr.hop = "anchor" ->
             IF b.iframe THEN found_iframe(st, p) ELSE try_endpoint_raises(st, p)
        [] pr.hop = "iframe" ->
             LET s1 == [st EXCEPT !.proc[p].found = b.found]
             IN  IF missing_params(b.found) /= {}
                   THEN try_endpoint_raises(s1, p)
                   ELSE _make_robust_request(s1, p, "auth", DefaultRetries, DefaultDelay)
        [] pr.hop = "auth" ->
             _make_robust_request(st, p, "lookup", DefaultRetries, DefaultDelay)
        [] OTHER ->  \* lookup
             IF b.server_key \in {"", "not json"}
               THEN try_endpoint_raises(st, p)
               ELSE endpoint_succeeded(st, p,
                      Stream(clean_m3u8_url(b.server_key, channel_key), pr.iframe_url), w)

\* A plausible slip: a player link whose request fails ends the attempt.
request_failed_link_fatal(st, p, e) ==
  LET pr == st.proc[p]
  IN  CASE pr.hop = "direct" ->
             [st EXCEPT !.proc[p].pc = "raised", !.proc[p].error = e,
                        !.proc[p].using = 0]
        [] pr.hop = "landing" -> try_endpoint(st, p, 1)
        [] OTHER -> try_endpoint_raises(st, p)

\* A plausible slip: the handshake is best effort, and the server lookup
\* is made although the auth request raised.
request_failed_auth_ignored(st, p, e) ==
  LET pr == st.proc[p]
  IN  CASE pr.hop = "direct" ->
             [st EXCEPT !.proc[p].pc = "raised", !.proc[p].error = e,
                        !.proc[p].using = 0]
        [] pr.hop = "landing" -> try_endpoint(st, p, 1)
        [] pr.hop = "player" -> next_player(st, p)
        [] pr.hop = "auth" ->
             _make_robust_request(st, p, "lookup", DefaultRetries, DefaultDelay)
        [] OTHER -> try_endpoint_raises(st, p)

\* _make_robust_request raises e: what its caller does with it up to the
\* next suspension.
request_failed(st, p, e) ==
  LET pr == st.proc[p]
  IN  CASE pr.hop = "direct" ->
             [st EXCEPT !.proc[p].pc = "raised", !.proc[p].error = e,
                        !.proc[p].using = 0]
        [] pr.hop = "landing" -> try_endpoint(st, p, 1)
        [] pr.hop = "player" -> next_player(st, p)
        [] OTHER -> try_endpoint_raises(st, p)

\* The end of the first except clause: self.session = None, and the raise
\* of the last attempt.
after_close(st, p) ==
  request_failed([st EXCEPT !.session = 0], p,
                 ExtractorError(<< "Tutti i tentativi falliti" >>, 0))

\* The first except clause: a transport-class failure of an attempt.
\* suspends says whether `await self.session.close()` suspends.
on_transport_error(st, p, suspends) ==
  LET pr == st.proc[p]
  IN  IF is_last_attempt(pr.attempt, pr.retries)
        THEN LET s0 == Failed(st, p, "transport", 0)
             IN  IF s0.session /= 0 /\ s0.session \notin s0.closed
                   THEN LET s1 == [s0 EXCEPT !.closed = @ \cup {s0.session}]
                        IN  IF suspends
                              THEN [s1 EXCEPT !.proc[p].pc = "closing", !.proc[p].using = 0]
                              ELSE after_close(s1, p)
                   ELSE after_close(s0, p)
        ELSE LET delay == backoff_delay(pr.initial_delay, pr.attempt)
             IN  sleep(Failed(st, p, "transport", delay), p, delay)

\* The second except clause: any other exception of an attempt; kind is
\* "status" for the ClientResponseError of raise_for_status, else "other".
on_other_error(st, p, kind) ==
  LET pr == st.proc[p]
  IN  IF is_last_attempt(pr.attempt, pr.retries)
        THEN request_failed(Failed(st, p, kind, 0), p,
                            ExtractorError(<< "Errore finale" >>, 0))
        ELSE LET delay == fixed_delay(pr.initial_delay, pr.attempt)
             IN  sleep(Failed(st, p, kind, delay), p, delay)

\* One attempt ends with out.  The probe is behind, and so are the fields
\* of an attempt that has ended.
attempt_done(st, p, out, w, suspends) ==
  LET s0 == [st EXCEPT !.proc[p].probe = "none",
                       !.proc[p].found = IF st.proc[p].hop \in {"auth", "lookup"} THEN @ ELSE {}]
  IN  IF out.kind = "transport"
        THEN on_transport_error(s0, p, suspends)
      ELSE IF out.kind = "other"
        THEN on_other_error(s0, p, "other")
      ELSE IF raise_for_status(out.status)
        THEN on_other_error(s0, p, "status")
      ELSE request_ok(s0, p, out, w)

\* The sleep between two attempts is over: the next iteration.
sleep_done(st, p) == IssueGet([st EXCEPT !.proc[p].attempt = @ + 1], p)

\* ------------------------------------------------------------ cache probe
\* A plausible slip: the entry deleted, the cache not saved.
invalidate_unsaved(st, p, w) ==
  LET ch == st.proc[p].channel_id
  IN  IF ch \notin DOMAIN st.stream_data_cache
        THEN extract_raise(st, p, Error("KeyError", << "KeyError" >>, 0))
        ELSE resolve([st EXCEPT !.stream_data_cache = Del(@, ch)], p)

\* The invalidation branch of extract: del, _save_cache, and on to the
\* resolution.  `del` of a key that is gone raises KeyError.
invalidate(st, p, w) ==
  LET ch == st.proc[p].channel_id
  IN  IF ch \notin DOMAIN st.stream_data_cache
        THEN extract_raise(st, p, Error("KeyError", << "KeyError" >>, 0))
        ELSE resolve(_save_cache([st EXCEPT !.stream_data_cache = Del(@, ch)], w), p)

\* What session.head ends with: a status, or 0 for an exception.
HeadOutcomes == {200, 404, 0}

\* A plausible slip: the test of is_valid inverted.
head_done_inverted(st, p, status, w) ==
  IF status /= 200
    THEN extract_return([st EXCEPT !.proc[p].probe = IF status = 0 THEN "error" ELSE "stale"],
                        p, st.proc[p].cached_data)
    ELSE invalidate([st EXCEPT !.proc[p].probe = "valid"], p, w)

\* The probe is over.
head_done(st, p, status, w) ==
  IF status = 200
    THEN extract_return([st EXCEPT !.proc[p].probe = "valid"], p, st.proc[p].cached_data)
    ELSE invalidate([st EXCEPT !.proc[p].probe = IF status = 0 THEN "error" ELSE "stale"],
                    p, w)

\* A plausible slip: force_refresh is not looked at, and a forced call
\* probes the entry like any other.
extract_probes_always(st, p, url, force_refresh, w) ==
  LET ch == extract_channel_id(url)
      s0 == [st EXCEPT !.proc[p] = [IdleProc EXCEPT !.url = url, !.channel_id = ch]]
  IN  IF ch = NoMatch
        THEN extract_raise(s0, p,
               ExtractorError(<< "Impossibile estrarre channel ID da" >> \o url, 0))
      ELSE IF ch \in DOMAIN st.stream_data_cache
        THEN LET s1 == [s0 EXCEPT !.proc[p].cached_data = st.stream_data_cache[ch]]
             IN  IF s1.proc[p].cached_data.destination_url /= << >>
                   THEN LET s2 == _get_session(s1)
                        IN  [s2 EXCEPT !.proc[p].pc = "head",
                                       !.proc[p].using = s2.session,
                                       !.proc[p].n_head = @ + 1]
                   ELSE invalidate([s1 EXCEPT !.proc[p].probe = "no_url"], p, w)
      ELSE resolve(s0, p)

\* extract(url, force_refresh) up to its first suspension.
extract(st, p, url, force_refresh, w) ==
  LET ch == extract_channel_id(url)
      s0 == [st EXCEPT !.proc[p] = [IdleProc EXCEPT !.url = url, !.channel_id = ch]]
  IN  IF ch = NoMatch
        THEN extract_raise(s0, p,
               ExtractorError(<< "Impossibile estrarre channel ID da" >> \o url, 0))
      ELSE IF ~force_refresh /\ ch \in DOMAIN st.stream_data_cache
        THEN LET s1 == [s0 EXCEPT !.proc[p].cached_data = st.stream_data_cache[ch]]
             IN  IF s1.proc[p].cached_data.destination_url /= << >>
                   THEN LET s2 == _get_session(s1)
                        IN  [s2 EXCEPT !.proc[p].pc = "head",
                                       !.proc[p].using = s2.session,
                                       !.proc[p].n_head = @ + 1]
                   ELSE invalidate([s1 EXCEPT !.proc[p].probe = "no_url"], p, w)
      ELSE resolve(s0, p)

\* ----------------------------------------------------------------- actions
\* An input that the step does not read is held at one value.
Reads(st, p, w, suspends) ==
  /\ w = "ok" \/ st.saved
  /\ ~suspends \/ st.proc[p].pc = "closing"

\* A caller starts a resolution of one of urls.
ExtractOf(p, urls, in_turn) ==
  /\ proc[p].pc = "idle"
  /\ \E url \in urls, force_refresh \in BOOLEAN, w \in WriteOutcomes :
       LET st == extract(State, p, url, force_refresh, w)
       IN  Reads(st, p, w, FALSE) /\ BecomesIn(st, in_turn)

Extract(p) == ExtractOf(p, Urls, FALSE)

\* A caller starts a resolution of any URL.
ExtractAny(p) == ExtractOf(p, AllUrls, FALSE)

\* __init__ on the cache file there is: self._stream_data_cache =
\* self._load_cache().
Construct ==
  LET loaded == _load_cache(cache_file)
  IN  /\ init_raised' = loaded.raised
      /\ stream_data_cache' = loaded.value
      /\ UNCHANGED << session, closed, n_sessions, session_lock, built_unlocked,
                      cached_base_url, iframe_context,
                      cache_file, last_write, faults, proc, call, ret >>

\* A caller calls _make_robust_request itself.
Request(p) ==
  /\ proc[p].pc = "idle"
  /\ \E retries \in 1..MaxRetries, initial_delay \in 1..MaxDelay :
       Becomes(_make_robust_request(State, p, "direct", retries, initial_delay))

\* The cache probe ends.
HeadEnds(p, in_turn) ==
  /\ proc[p].pc = "head"
  /\ \E status \in HeadOutcomes, w \in WriteOutcomes :
       LET st == head_done([State EXCEPT !.new_faults = IF status = 200 THEN 0 ELSE 1],
                           p, status, w)
       IN  Reads(st, p, w, FALSE) /\ BecomesIn(st, in_turn)

HeadDone(p) == HeadEnds(p, FALSE)

\* One attempt of a request ends.
AttemptEndsOn(p, in_turn, links) ==
  /\ proc[p].pc = "get"
  /\ \E out \in OutcomesUpTo(proc[p].hop, links), w \in WriteOutcomes,
        suspends \in BOOLEAN :
       LET st == attempt_done([State EXCEPT !.new_faults = Cost(proc[p].hop, out)],
                              p, out, w, suspends)
       IN  Reads(st, p, w, suspends) /\ BecomesIn(st, in_turn)

AttemptEnds(p, in_turn) == AttemptEndsOn(p, in_turn, MaxLinks)

AttemptDone(p) == AttemptEnds(p, FALSE)

\* A sleep between two attempts ends.
SleepDone(p) ==
  /\ proc[p].pc = "sleep"
  /\ Becomes(sleep_done(State, p))

\* session.close() of the teardown ends.
CloseDone(p) ==
  /\ proc[p].pc = "closing"
  /\ Becomes(after_close(State, p))

\* The same, of coroutines that are called in turn.
ExtractNext(p) == ExtractOf(p, Urls, TRUE)
HeadDoneNext(p) == HeadEnds(p, TRUE)
AttemptDoneNext(p) == AttemptEnds(p, TRUE)

\* The same, of the one resolution of an extractor, on stream pages of up
\* to MaxButtons player buttons.
ExtractAlone(p) ==
  /\ \A q \in Procs : proc[q].pc = "idle"
  /\ ExtractOf(p, Urls, TRUE)

AttemptDoneAlone(p) == AttemptEndsOn(p, TRUE, MaxButtons)

\* A caller calls close() between two resolutions; nothing runs while
\* session.close() is suspended, and nothing follows it.
Close ==
  /\ Suspended(State) = {}
  /\ BecomesIn(close(State), TRUE)

\* The cache files an extractor starts from.
InitFiles ==
  { File("missing", EmptyMap),
    Encoded(Put(EmptyMap, << "1" >>, OldStream)),
    Encoded(Put(EmptyMap, << "1" >>, NoDestStream)) }

\* The state after __init__.
Init ==
  /\ session = 0
  /\ closed = {}
  /\ n_sessions = 0
  /\ session_lock = 0
  /\ built_unlocked = {}
  /\ cached_base_url = None
  /\ iframe_context = None
  /\ cache_file \in InitFiles
  /\ stream_data_cache = _load_cache(cache_file).value
  /\ init_raised = FALSE
  /\ last_write = "none"
  /\ faults = 0
  /\ proc = [p \in Procs |-> IdleProc]
  /\ call = NoCall
  /\ ret = << >>

\* Resolutions on one extractor, in any interleaving.
Next ==
  \E p \in Procs :
    \/ Extract(p)
    \/ HeadDone(p)
    \/ AttemptDone(p)
    \/ SleepDone(p)
    \/ CloseDone(p)

Spec == Init /\ [][Next]_vars

\* Direct calls of the request executor on one extractor.
NextReq ==
  \E p \in Procs :
    \/ Request(p)
    \/ AttemptDone(p)
    \/ SleepDone(p)
    \/ CloseDone(p)

SpecReq == Init /\ [][NextReq]_vars

\* Resolutions and close() on one extractor, one after another.
NextSeq ==
  \/ \E p \in Procs :
       \/ ExtractNext(p)
       \/ HeadDoneNext(p)
       \/ AttemptDoneNext(p)
       \/ SleepDone(p)
       \/ CloseDone(p)
  \/ Close

SpecSeq == Init /\ [][NextSeq]_vars

\* One resolution on one extractor.
NextOne ==
  \E p \in Procs :
    \/ ExtractAlone(p)
    \/ HeadDoneNext(p)
    \/ AttemptDoneAlone(p)
    \/ SleepDone(p)
    \/ CloseDone(p)

SpecOne == Init /\ [][NextOne]_vars

\* Resolutions of any URL, up to their first suspension.
NextId == \E p \in Procs : ExtractAny(p)

SpecId == Init /\ [][NextId]_vars

\* Construction on any cache file: the state before __init__ assigns the
\* cache, and __init__.
InitLoad ==
  /\ session = 0
  /\ closed = {}
  /\ n_sessions = 0
  /\ session_lock = 0
  /\ built_unlocked = {}
  /\ cached_base_url = None
  /\ iframe_context = None
  /\ cache_file \in AllFiles
  /\ stream_data_cache = EmptyMap
  /\ init_raised = FALSE
  /\ last_write = "none"
  /\ faults = 0
  /\ proc = [p \in Procs |-> IdleProc]
  /\ call = NoCall
  /\ ret = << >>

NextLoad == Construct

SpecLoad == InitLoad /\ [][NextLoad]_vars

\* What lines 357-421 make of an iframe page: the cascade, the fields set
\* after it, and whether "Missing parameters: ..." is raised, with the
\* fields the message names.
decode_page(page) ==
  [ran |-> decode_fields(page).ran,
   src |-> decode_fields(page).src,
   found |-> found_fields(page),
   raised |-> missing_params(found_fields(page)) /= {},
   missing |-> missing_params(found_fields(page))]

\* The pure steps, each applied to the arguments of the call.
Decode ==
  /\ call.fn = "decode" /\ ret = << >>
  /\ ret' = << decode_page(call.page) >>
  /\ UNCHANGED << session, closed, n_sessions, session_lock, built_unlocked,
                  cached_base_url, iframe_context, stream_data_cache,
                  cache_file, init_raised, last_write, faults, proc, call >>

JoinAuthUrl ==
  /\ call.fn = "auth_url" /\ ret = << >>
  /\ ret' = << auth_url(call.auth_host, call.auth_php) >>
  /\ UNCHANGED << session, closed, n_sessions, session_lock, built_unlocked,
                  cached_base_url, iframe_context, stream_data_cache,
                  cache_file, init_raised, last_write, faults, proc, call >>

CleanUrl ==
  /\ call.fn = "clean_m3u8_url" /\ ret = << >>
  /\ ret' = << clean_m3u8_url(call.server_key, call.channel_key) >>
  /\ UNCHANGED << session, closed, n_sessions, session_lock, built_unlocked,
                  cached_base_url, iframe_context, stream_data_cache,
                  cache_file, init_raised, last_write, faults, proc, call >>

HeadersFor ==
  /\ call.fn = "_get_headers_for_url" /\ ret = << >>
  /\ ret' = << _get_headers_for_url(call.ctx, call.url, call.base_headers) >>
  /\ UNCHANGED << session, closed, n_sessions, session_lock, built_unlocked,
                  cached_base_url, iframe_context, stream_data_cache,
                  cache_file, init_raised, last_write, faults, proc, call >>

\* The pure steps of the pipeline, on any arguments.
InitFn ==
  /\ session = 0
  /\ closed = {}
  /\ n_sessions = 0
  /\ session_lock = 0
  /\ built_unlocked = {}
  /\ cached_base_url = None
  /\ iframe_context = None
  /\ cache_file = File("missing", EmptyMap)
  /\ stream_data_cache = EmptyMap
  /\ init_raised = FALSE
  /\ last_write = "none"
  /\ faults = 0
  /\ proc = [p \in Procs |-> IdleProc]
  /\ call \in Calls
  /\ ret = << >>

NextFn ==
  \/ Decode
  \/ JoinAuthUrl
  \/ CleanUrl
  \/ HeadersFor

SpecFn == InitFn /\ [][NextFn]_vars

\* ------------------------------------------------------------ properties
\* The coroutine p takes the step.
Steps(p) == proc'[p] /= proc[p]

\* The file holds the cache map, unless the last write of it failed.
Persisted(file, cache, write) ==
  write = "failed" \/ _load_cache(file).value = cache

\* C1: a call that finds an entry for its channel probes the entry it
\* read, with one HEAD request; when the probe answers 200 the call returns
\* that entry, has issued no GET, creates no session for one, and leaves
\* the cache map and the cache file as they are; any other probe result
\* does not return.
C1_CacheHitReturnsEntry ==
  [][\A p \in Procs :
       /\ (Steps(p) /\ proc'[p].pc = "head") =>
            /\ proc'[p].channel_id \in DOMAIN stream_data_cache
            /\ proc'[p].cached_data = stream_data_cache[proc'[p].channel_id]
            /\ proc'[p].n_head = 1
            /\ ~proc'[p].got
       /\ (Steps(p) /\ proc[p].pc = "head") =>
            IF proc'[p].probe = "valid"
              THEN /\ proc'[p].pc = "done"
                   /\ proc'[p].result = proc[p].cached_data
                   /\ proc[p].n_head = 1
                   /\ ~proc[p].got
                   /\ stream_data_cache' = stream_data_cache
                   /\ cache_file' = cache_file
                   /\ n_sessions' = n_sessions
              ELSE proc'[p].pc /= "done"]_vars

C1_Witness ==
  \E p \in Procs :
    proc[p].pc = "done" /\ proc[p].probe = "valid" /\ proc[p].result = OldStream

\* The channel of the probe that ends in the step of p.
ProbedChannel(p) ==
  IF proc[p].pc = "head" THEN proc[p].channel_id ELSE proc'[p].channel_id

\* C2: in the step in which the probe of a call fails (another status, an
\* exception, no destination_url) the entry of its channel leaves the cache
\* map and, unless the write fails, the cache file; the call has issued no
\* GET before, and the GET it issues at the end of the step is the first
\* attempt of the landing-page probe or of the first endpoint.
C2_StaleEntryRemovedFirst ==
  [][\A p \in Procs :
       (Steps(p) /\ proc'[p].probe \in {"stale", "error", "no_url"}) =>
         /\ ProbedChannel(p) \notin DOMAIN stream_data_cache'
         /\ last_write' /= "failed" =>
              ProbedChannel(p) \notin DOMAIN _load_cache(cache_file').value
         /\ Persisted(cache_file', stream_data_cache', last_write')
         /\ ~proc[p].got
         /\ proc'[p].pc = "get" =>
              /\ proc'[p].hop \in {"landing", "stream"}
              /\ proc'[p].hop = "stream" => proc'[p].ep_log = << 1 >>
              /\ proc'[p].n_get = 1]_vars

C2_Witness ==
  \E p \in Procs :
    /\ proc[p].probe = "stale"
    /\ proc[p].pc = "get"
    /\ last_write = "ok"
    /\ cache_file = Encoded(EmptyMap)

\* C3: a call whose probe fails goes on to the landing-page probe or the
\* first endpoint; it does not end there.
C3_InvalidationNeverRaises ==
  \A p \in Procs :
    proc[p].probe \in {"stale", "error", "no_url"} => proc[p].pc = "get"

\* C4: the endpoints a call has requested are the first ones of the list,
\* in its order; the step in which an endpoint attempt succeeds stores its
\* result under the channel ID, saves the cache and returns the result;
\* a call that has ended requests nothing more.
C4_FirstSuccessEnds ==
  [][\A p \in Procs :
       /\ proc'[p].pc \in {"get", "sleep", "closing"} =>
            /\ proc'[p].endpoint \in 0..Len(endpoints)
            /\ proc'[p].ep_log = [i \in 1..proc'[p].endpoint |-> i]
       /\ (Steps(p) /\ proc[p].pc = "get" /\ proc'[p].pc = "done") =>
            /\ proc[p].hop = "lookup"
            /\ proc[p].ep_log = [i \in 1..proc[p].endpoint |-> i]
            /\ proc[p].channel_id \in DOMAIN stream_data_cache'
            /\ stream_data_cache'[proc[p].channel_id] = proc'[p].result
            /\ proc'[p].result.destination_url /= << >>
            /\ proc'[p].result.iframe_url = proc[p].iframe_url
            /\ Persisted(cache_file', stream_data_cache', last_write')
            /\ last_write' /= "none"
       /\ proc[p].pc \in {"done", "raised"} => proc'[p] = proc[p]]_vars

C4_Witness ==
  \E p \in Procs :
    /\ proc[p].pc = "done"
    /\ proc[p].probe = "none"
    /\ << "2" >> \in DOMAIN stream_data_cache
    /\ stream_data_cache[<< "2" >>] = proc[p].result
    /\ cache_file = Encoded(stream_data_cache)
    /\ faults >= 2

\* C5: the step in which the attempt of the last endpoint fails raises
\* ExtractorError, whose text ends with the error of that attempt, and
\* leaves the cache map and the cache file as they are; whatever a call
\* raises is an ExtractorError.
C5_AllEndpointsFail ==
  [][\A p \in Procs :
       /\ (Steps(p) /\ proc[p].pc \in {"get", "closing"} /\ proc'[p].pc = "raised") =>
            /\ proc[p].endpoint = Len(endpoints)
            /\ proc[p].ep_log = << 1, 2, 3, 4 >>
            /\ proc'[p].error =
                 ExtractorError(<< "Estrazione DLHD completamente fallita",
                                   "Tutti gli endpoint DLHD hanno fallito. Ultimo errore" >>
                                  \o EndpointError(Len(endpoints)).text,
                                Len(endpoints))
            /\ stream_data_cache' = stream_data_cache
            /\ cache_file' = cache_file
       /\ proc'[p].pc = "raised" => proc'[p].error.type = "ExtractorError"]_vars

C5_Witness ==
  \E p \in Procs :
    /\ proc[p].pc = "raised"
    /\ proc[p].error.origin = Len(endpoints)
    /\ faults = MaxFaults

\* The capture of the first pattern, in list order, that matches url.
FirstMatch(url, id) ==
  \E k \in 1..Len(patterns) :
    /\ id /= NoMatch
    /\ re_search(patterns[k], url) = id
    /\ \A j \in 1..(k - 1) : re_search(patterns[j], url) = NoMatch

\* C6: a call with a URL that no pattern matches raises ExtractorError in
\* its first step: it is suspended in no request, and the session, the
\* cache map, the cache file and the iframe context are as before; a call
\* with any other URL goes on with the capture of the first pattern of the
\* list that matches.
C6_ChannelIdOrTerminalError ==
  [][\A p \in Procs :
       (Steps(p) /\ proc[p].pc = "idle") =>
         IF proc'[p].pc = "raised"
           THEN /\ \E url \in AllUrls :
                     /\ \A k \in 1..Len(patterns) : re_search(patterns[k], url) = NoMatch
                     /\ proc'[p].error =
                          ExtractorError(<< "Estrazione DLHD completamente fallita",
                                            "Impossibile estrarre channel ID da" >> \o url, 0)
                /\ session' = session
                /\ n_sessions' = n_sessions
                /\ closed' = closed
                /\ stream_data_cache' = stream_data_cache
                /\ cache_file' = cache_file
                /\ iframe_context' = iframe_context
                /\ cached_base_url' = cached_base_url
           ELSE /\ proc'[p].pc \in {"head", "get"}
                /\ FirstMatch(proc'[p].url, proc'[p].channel_id)]_vars

\* Two patterns match the URL with different captures, and the later one
\* matches further left.
C6_Witness ==
  \E p \in Procs :
    /\ proc[p].url = << "/", "watch", "/", "stream-", "2", ".php",
                        "/", "premium", "1", "/", "mono.m3u8" >>
    /\ proc[p].channel_id = << "1" >>
    /\ proc[p].pc = "get"

\* C7: __init__ raises on no cache file; a file that is missing, empty or
\* corrupt gives the empty map; the file stays as it is.
C7_LoadNeverFails ==
  [][/\ ~init_raised'
     /\ cache_file.kind /= "json" => stream_data_cache' = EmptyMap
     /\ cache_file' = cache_file]_vars

\* The failed attempts in log are all of one of kinds.
AllOf(log, kinds) == \A i \in 1..Len(log) : log[i].kind \in kinds

\* The delays in log are those of delay(initial_delay, attempt) after
\* every attempt but the last of `retries`, and none after that.
SleptAs(log, retries, initial_delay, delay(_, _)) ==
  \A i \in 1..Len(log) :
    log[i].slept = IF i < retries THEN delay(initial_delay, i - 1) ELSE 0

\* initial_delay * 2^k
Exponential(initial_delay, k) == initial_delay * Pow2(k)

\* initial_delay
Fixed(initial_delay, k) == initial_delay

\* C8: a request whose attempts all fail with a transport-class error
\* raises ExtractorError after exactly `retries` GET attempts, having slept
\* initial_delay * 2^k after attempt k and not after the last; the session
\* there is when the last attempt fails is closed in that step, and
\* self.session is None when the request raises; an attempt that finds no
\* live session gets a new one.
C8_TransportRetries ==
  [][\A p \in Procs :
       /\ (Steps(p) /\ proc'[p].pc = "raised" /\ proc'[p].hop = "direct"
             /\ AllOf(proc'[p].log, {"transport"})) =>
            /\ proc'[p].n_get = proc'[p].retries
            /\ Len(proc'[p].log) = proc'[p].retries
            /\ SleptAs(proc'[p].log, proc'[p].retries, proc'[p].initial_delay, Exponential)
            /\ proc'[p].error.type = "ExtractorError"
            /\ session' = 0
       /\ (Steps(p) /\ proc[p].pc = "get" /\ proc'[p].pc \in {"closing", "raised"}
             /\ proc'[p].log[Len(proc'[p].log)].kind = "transport") =>
            /\ session /= 0 => session \in closed'
            /\ proc'[p].pc = "closing" => session' = session
       /\ (Steps(p) /\ proc'[p].pc = "get") =>
            /\ proc'[p].using = session'
            /\ session' /= 0
            /\ session' \notin closed'
            /\ (session = 0 \/ session \in closed) => session' = n_sessions + 1
            /\ (session /= 0 /\ session \notin closed) => session' = session]_vars

C8_Witness ==
  \E p, q \in Procs :
    /\ proc[p].pc = "raised"
    /\ proc[p].retries >= 2
    /\ AllOf(proc[p].log, {"transport"})
    /\ proc[q].pc = "get"
    /\ proc[q].using = 2
    /\ 1 \in closed

\* C9 as the specification states it: a request whose attempts all fail
\* with a non-transport exception makes at most two attempts, whatever
\* retries >= 2.
C9_AtMostTwoAttempts ==
  \A p \in Procs :
    (proc[p].pc = "raised" /\ proc[p].hop = "direct" /\ proc[p].retries >= 2
       /\ AllOf(proc[p].log, {"other", "status"})) =>
      proc[p].n_get <= 2

\* C9, amended: a request whose attempts all fail with a non-transport
\* exception raises ExtractorError after exactly `retries` GET attempts,
\* having slept initial_delay after every attempt but the last; the
\* session stays as it is.
C9_OtherErrorRetries ==
  [][\A p \in Procs :
       (Steps(p) /\ proc'[p].pc = "raised" /\ proc'[p].hop = "direct"
          /\ AllOf(proc'[p].log, {"other", "status"})) =>
         /\ proc'[p].n_get = proc'[p].retries
         /\ Len(proc'[p].log) = proc'[p].retries
         /\ SleptAs(proc'[p].log, proc'[p].retries, proc'[p].initial_delay, Fixed)
         /\ proc'[p].error.type = "ExtractorError"
         /\ session' = session
         /\ closed' = closed]_vars

C9_Witness ==
  \E p \in Procs :
    /\ proc[p].pc = "raised"
    /\ proc[p].hop = "direct"
    /\ proc[p].n_get = 3
    /\ AllOf(proc[p].log, {"other"})

\* C10: a request returns no response of status 400 or more; an attempt
\* that ends with such a status is a failed attempt, after which the
\* request sleeps initial_delay (or raises, when it was the last attempt)
\* and the session is neither closed nor dropped.
C10_StatusFailure ==
  [][\A p \in Procs :
       /\ (proc'[p].pc = "done" /\ proc'[p].hop = "direct") => proc'[p].status < 400
       /\ (Steps(p) /\ Len(proc'[p].log) = Len(proc[p].log) + 1
             /\ proc'[p].log[Len(proc'[p].log)].kind = "status") =>
            /\ proc'[p].log[Len(proc'[p].log)].slept =
                 IF Len(proc'[p].log) < proc'[p].retries THEN proc'[p].initial_delay ELSE 0
            /\ proc'[p].pc =
                 IF Len(proc'[p].log) < proc'[p].retries THEN "sleep" ELSE "raised"
            /\ session' = session
            /\ closed' = closed]_vars

C10_Witness ==
  \E p \in Procs :
    /\ proc[p].pc = "raised"
    /\ proc[p].hop = "direct"
    /\ Len(proc[p].log) = 3
    /\ AllOf(proc[p].log, {"status"})
    /\ session /= 0
    /\ session \notin closed

\* C11: a step constructs at most one session, and only when there is no
\* session or the current one is closed; the session it constructs becomes
\* self.session and is constructed while self._session_lock is held.
C11_SessionBuiltUnderLock ==
  [][/\ n_sessions' \in {n_sessions, n_sessions + 1}
     /\ (session /= 0 /\ session \notin closed) => n_sessions' = n_sessions
     /\ n_sessions' = n_sessions + 1 =>
          /\ session' = n_sessions'
          /\ session' \notin built_unlocked']_vars

\* C12: a coroutine is in the auth handshake or in the server lookup only
\* with all six fields set; a step that ends the request of the iframe
\* page with fewer than six issues neither request: the request is tried
\* again (a failed attempt) or the endpoint attempt ends as failed.
C12_NoHandshakeOnPartialBundle ==
  [][\A p \in Procs :
       /\ (proc'[p].pc \in {"get", "sleep", "closing"}
             /\ proc'[p].hop \in {"auth", "lookup"}) => proc'[p].found = AuthFields
       /\ (Steps(p) /\ proc[p].pc = "get" /\ proc[p].hop = "iframe"
             /\ proc'[p].found /= AuthFields) =>
            /\ proc'[p].hop \notin {"auth", "lookup"}
            /\ \/ proc'[p].pc = "raised"
               \/ /\ proc'[p].hop = "iframe"
                  /\ proc'[p].pc \in {"sleep", "closing"}
                  /\ proc'[p].endpoint = proc[p].endpoint
               \/ /\ proc'[p].endpoint = proc[p].endpoint + 1
                  /\ proc'[p].last_exc = EndpointError(proc[p].endpoint)]_vars

C12_Witness ==
  \E p \in Procs :
    /\ proc[p].found = AuthFields \ {"auth_sig"}
    /\ proc[p].hop = "stream"
    /\ proc[p].endpoint = 2

\* The strategy that wins the cascade on a page, and what it holds.
Winner(pg) ==
  IF Truthy(pg.xjz) THEN "xjz" ELSE IF Truthy(pg.bundle) THEN "bundle" ELSE "legacy"

Holds(pg, w) ==
  CASE w = "xjz" -> pg.xjz.keys
    [] w = "bundle" -> pg.bundle.keys
    [] w = "legacy" -> pg.legacy

\* C13: the strategies are tried in the order XJZ, BUNDLE, legacy; the
\* first whose result is non-empty supplies all five auth fields and no
\* later strategy is run or contributes a value; channel_key is set by its
\* own pattern search, whichever strategy wins.
C13_FirstNonEmptyStrategyWins ==
  (call.fn = "decode" /\ ret /= << >>) =>
    LET pg == call.page
        r == ret[1]
        w == Winner(pg)
    IN  /\ r.ran = CASE w = "xjz" -> << "xjz" >>
                     [] w = "bundle" -> << "xjz", "bundle" >>
                     [] w = "legacy" -> << "xjz", "bundle", "legacy" >>
        /\ \A f \in BundleFields :
             r.src[f] = IF f \in Holds(pg, w) THEN w ELSE "none"
        /\ r.found \ {"channel_key"} = Holds(pg, w)
        /\ ("channel_key" \in r.found) = pg.key

\* A page whose BUNDLE object holds one field and whose legacy variables
\* hold all five has been decoded.
C13_Witness ==
  /\ call.fn = "decode" /\ ret /= << >>
  /\ ~Truthy(call.page.xjz)
  /\ call.page.bundle.keys = {"auth_ts"}
  /\ call.page.legacy = BundleFields
  /\ ret[1].ran = << "xjz", "bundle" >>

\* The fields that are unset when the cascade has ended.
Unset(pg, r) ==
  { f \in BundleFields : r.src[f] = "none" }
    \cup (IF pg.key THEN {} ELSE {"channel_key"})

\* C14 (as stated): the missing-parameter failure is raised exactly when
\* one of the six fields is unset after all three strategies have been
\* attempted, and its message names exactly the unset fields.
C14_RaisedAfterAllStrategies ==
  (call.fn = "decode" /\ ret /= << >>) =>
    /\ ret[1].raised = (Unset(call.page, ret[1]) /= {})
    /\ ret[1].raised =>
         /\ ret[1].missing = Unset(call.page, ret[1])
         /\ ret[1].ran = << "xjz", "bundle", "legacy" >>

\* C14 (amended): the missing-parameter failure is raised exactly when one
\* of the six fields is unset when the cascade has ended, which is after
\* the first strategy with a non-empty result, not after all three; its
\* message names exactly the unset fields.
C14_MissingNamesUnsetFields ==
  (call.fn = "decode" /\ ret /= << >>) =>
    /\ ret[1].raised = (Unset(call.page, ret[1]) /= {})
    /\ ret[1].raised =>
         /\ ret[1].missing = Unset(call.page, ret[1])
         /\ ret[1].missing /= {}
    /\ ~ret[1].raised => ret[1].found = AuthFields

\* The failure has been raised on a page whose XJZ object lacks auth_sig,
\* with only the XJZ strategy run.
C14_Witness ==
  /\ call.fn = "decode" /\ ret /= << >>
  /\ ret[1].raised
  /\ ret[1].ran = << "xjz" >>
  /\ ret[1].missing = {"auth_sig"}
  /\ "auth_sig" \in call.page.legacy

\* C15: the destination URL is
\* https://top1.newkso.ru/top1/cdn/{channel_key}/mono.m3u8 when the server
\* key is literally top1/cdn, and
\* https://{server_key}new.newkso.ru/{server_key}/{channel_key}/mono.m3u8
\* for every other key.
C15_DestinationUrlTemplate ==
  (call.fn = "clean_m3u8_url" /\ ret /= << >>) =>
    LET k == call.server_key
        c == call.channel_key
    IN  /\ k = "top1/cdn" =>
              ret[1] = << "https://", "top1", ".newkso.ru/", "top1/cdn", "/", c, "/mono.m3u8" >>
        /\ k /= "top1/cdn" =>
              ret[1] = << "https://", k, "new.newkso.ru/", k, "/", c, "/mono.m3u8" >>

\* The template has been applied to a key that starts like the CDN key.
C15_Witness ==
  /\ call.fn = "clean_m3u8_url" /\ ret /= << >>
  /\ call.server_key = "top1/cdn2"
  /\ ret[1][2] = "top1/cdn2"

\* C16: the auth URL has exactly one "/" between host and script, for every
\* auth_host and auth_php; a bare a.php is first replaced by /auth.php.
C16_OneSlashBetweenHostAndScript ==
  (call.fn = "auth_url" /\ ret /= << >>) =>
    LET host == rstrip(call.auth_host, "/")
        bare == lstrip(strip(call.auth_php), "/") = << "a.php" >>
        script == IF bare THEN << "auth.php" >> ELSE lstrip(call.auth_php, "/")
    IN  ret[1] = host \o << "/" >> \o script \o auth_query

\* The coroutine with locals pr has come past its base-URL discovery: it
\* is at a later hop, or it has returned what the pipeline resolved, or the
\* failure of all endpoints has left it.
PastDiscovery(pr) ==
  \/ pr.pc \in {"get", "sleep", "closing"}
       /\ pr.hop \in {"stream", "player", "anchor", "iframe", "auth", "lookup"}
  \/ pr.pc = "done" /\ pr.probe /= "valid"
  \/ pr.pc = "raised" /\ pr.error.origin \in 1..Len(endpoints)

\* C17: the landing-page probe never fails a resolution, which goes on to
\* the first endpoint; and once a resolution has come past its base-URL
\* discovery, whether the probe succeeded or failed, no resolution issues
\* the landing-page probe again.
C17_LandingProbedOnce ==
  [][\A p \in Procs :
       /\ (Steps(p) /\ proc[p].pc = "get" /\ proc[p].hop = "landing"
             /\ proc'[p].hop /= "landing") =>
            /\ proc'[p].pc = "get"
            /\ proc'[p].hop = "stream"
            /\ proc'[p].endpoint = 1
       /\ (proc[p].hop /= "landing" /\ proc'[p].hop = "landing") =>
            \A q \in Procs : ~PastDiscovery(proc[q])]_vars

\* C19: for every hop an endpoint attempt issues after its iframe
\* discovery, the iframe context the header policy reads when it derives
\* the headers of the hop is the iframe URL that attempt discovered, in
\* every interleaving of concurrent resolutions.
C19_OwnIframeContext ==
  \A p \in Procs :
    (proc[p].pc \in {"get", "sleep", "closing"}
       /\ proc[p].hop \in {"iframe", "auth", "lookup"}
       /\ proc[p].ctx /= "unread") => proc[p].ctx = proc[p].iframe_url

\* The coroutine p takes the step of its iframe discovery.
Discovers(p) ==
  /\ proc[p].pc = "get"
  /\ proc[p].hop \in {"player", "anchor"}
  /\ proc'[p].hop = "iframe"
  /\ proc'[p].iframe_url = IframeOf(proc[p].channel_id)

\* C20: the iframe context changes only in an iframe discovery, to the
\* iframe URL discovered, and never returns to unset: a failed attempt, a
\* failed resolution, a cache hit and close() leave it as it is.
C20_ContextNeverRolledBack ==
  [][/\ iframe_context' /= iframe_context =>
          \E p \in Procs : Discovers(p) /\ iframe_context' = proc'[p].iframe_url
     /\ \A p \in Procs : Discovers(p) => iframe_context' = proc'[p].iframe_url
     /\ iframe_context /= None => iframe_context' /= None]_vars

\* After a discovery, close() has closed the session, one resolution has
\* returned from the cache and another has failed at every endpoint.
C20_Witness ==
  /\ iframe_context /= None
  /\ session /= 0 /\ session \in closed
  /\ Suspended(State) = {}
  /\ \E p \in Procs : proc[p].pc = "done" /\ proc[p].probe = "valid"
  /\ \E p \in Procs : proc[p].pc = "raised" /\ proc[p].error.origin = Len(endpoints)

\* The f"https://{host}" an Origin header holds for a URL with scheme s.
OriginOf(u) == << u.scheme, "://" >> \o u.netloc

\* C18: for a media host the headers are the base headers with User-Agent,
\* Referer and Origin overridden, Referer the iframe context and Origin
\* the iframe context's origin when a context is set, else both the
\* target's scheme+host; for any other host they equal base_headers.
C18_HeaderPolicy ==
  (call.fn = "_get_headers_for_url" /\ ret /= << >>) =>
    LET h == ret[1]
        b == call.base_headers
    IN  IF IsMediaHost(call.url)
          THEN /\ DOMAIN h = DOMAIN b \cup {"User-Agent", "Referer", "Origin"}
               /\ \A k \in DOMAIN b \ {"User-Agent", "Referer", "Origin"} : h[k] = b[k]
               /\ h["User-Agent"] = UserAgent
               /\ call.ctx /= << >> =>
                    /\ h["Referer"] = UrlString(call.ctx[1])
                    /\ h["Origin"] = OriginOf(call.ctx[1])
               /\ call.ctx = << >> =>
                    /\ h["Referer"] = OriginOf(call.url)
                    /\ h["Origin"] = OriginOf(call.url)
          ELSE h = b

\* C21: the data-url player links are visited in page order; the first
\* whose page holds an iframe source ends the visiting and gives the iframe
\* of the attempt; a link whose request fails or whose page holds no iframe
\* is skipped and the next one requested, the attempt going on; the links
\* after the winning one are never requested.
C21_FirstPlayerLinkWins ==
  [][\A p \in Procs :
       /\ proc'[p].hop = "player" => proc[p].hop \in {"stream", "player"}
       /\ (Steps(p) /\ proc[p].hop = "stream" /\ proc'[p].hop = "player") =>
            /\ proc'[p].pc = "get"
            /\ proc'[p].endpoint = proc[p].endpoint
       /\ (Steps(p) /\ proc[p].hop = "player" /\ proc[p].pc \in {"get", "closing"}
             /\ proc'[p].pc \notin {"sleep", "closing"}) =>
            \/ /\ proc'[p].hop = "iframe"
               /\ proc'[p].iframe_url = IframeOf(proc[p].channel_id)
               /\ proc'[p].links_left = proc[p].links_left
               /\ proc'[p].endpoint = proc[p].endpoint
            \/ /\ proc[p].links_left > 0
               /\ proc'[p].hop = "player"
               /\ proc'[p].pc = "get"
               /\ proc'[p].links_left = proc[p].links_left - 1
               /\ proc'[p].endpoint = proc[p].endpoint
            \/ /\ proc[p].links_left = 0
               /\ proc'[p].hop /= "player"
               /\ proc'[p].iframe_url = None
               /\ proc'[p].hop = "anchor" => proc'[p].endpoint = proc[p].endpoint]_vars

\* An attempt has its iframe from a player link after a fault, with one
\* more link on the page that it has not requested.
C21_Witness ==
  \E p \in Procs :
    /\ proc[p].pc = "get"
    /\ proc[p].hop = "iframe"
    /\ proc[p].endpoint = 1
    /\ proc[p].links_left = 1
    /\ faults = 1

\* The coroutine p goes from hop `from` to hop `to` of one endpoint
\* attempt in the step in which the request of `from` returns a response
\* without a fault.
Follows(p, from, to) ==
  /\ proc[p].hop \in from
  /\ proc'[p].hop = to
  /\ proc[p].pc = "get"
  /\ proc'[p].pc = "get"
  /\ proc'[p].attempt = 0
  /\ proc'[p].endpoint = proc[p].endpoint
  /\ faults' = faults

\* C22: within one endpoint attempt the hops are issued in the order
\* stream page, player pages, iframe page, auth handshake, server lookup,
\* each after the one before it returned a response; the lookup is issued
\* only after the auth request of the attempt returned without error, and
\* a result is returned only in the step in which a lookup yields a
\* non-empty server_key.
C22_HopsInOrder ==
  [][\A p \in Procs :
       /\ (proc'[p].hop \in {"player", "anchor"} /\ proc[p].hop \notin {"player", "anchor"})
            => Follows(p, {"stream"}, proc'[p].hop)
       /\ (proc'[p].hop = "anchor" /\ proc[p].hop = "player")
            => proc'[p].endpoint = proc[p].endpoint /\ proc[p].links_left = 0
       /\ (proc'[p].hop = "iframe" /\ proc[p].hop /= "iframe")
            => Follows(p, {"player", "anchor"}, "iframe")
       /\ (proc'[p].hop = "auth" /\ proc[p].hop /= "auth")
            => Follows(p, {"iframe"}, "auth")
       /\ (proc'[p].hop = "lookup" /\ proc[p].hop /= "lookup")
            => Follows(p, {"auth"}, "lookup")
       /\ (proc'[p].hop = "stream" /\ Steps(p) /\ proc'[p].pc = "get" /\ proc'[p].attempt = 0
             /\ proc'[p].endpoint = proc[p].endpoint)
            => proc[p].hop = "stream"
       /\ (proc'[p].pc = "done" /\ proc[p].pc /= "done" /\ proc'[p].probe /= "valid") =>
            /\ proc[p].hop = "lookup"
            /\ proc[p].pc = "get"
            /\ \E k \in ServerKeys :
                 proc'[p].result.destination_url = clean_m3u8_url(k, channel_key)
            /\ proc'[p].result.iframe_url = proc[p].iframe_url]_vars

\* The server lookup of the second endpoint attempt is under way, the
\* first attempt having failed.
C22_Witness ==
  \E p \in Procs :
    /\ proc[p].pc = "get"
    /\ proc[p].hop = "lookup"
    /\ proc[p].found = AuthFields
    /\ proc[p].iframe_url /= None
    /\ proc[p].endpoint = 2

\* C23: the shared session is never closed while a request of another
\* coroutine is in flight on it.
C23_SessionNotClosedInUse ==
  \A p \in Procs :
    (proc[p].pc \in {"head", "get"} /\ proc[p].using /= 0) => proc[p].using \notin closed

\* The entry of channel c is the same in both maps, or in neither.
SameEntry(m, n, c) ==
  /\ c \in DOMAIN m <=> c \in DOMAIN n
  /\ c \in DOMAIN m => m[c] = n[c]

\* C24: no cache update of concurrent resolutions is lost.  A step of a
\* resolution changes the entry of no channel but its own; a resolution
\* that returns what it resolved leaves it as the entry of its channel; whenever
\* the map or the file changes and the write succeeded, the file holds the
\* map as it then is; and when two resolutions of different channels have
\* both succeeded, the map, and the file if the last write succeeded, hold
\* both results.
C24_NoLostCacheUpdate ==
  [][/\ \A c \in DOMAIN stream_data_cache \cup DOMAIN stream_data_cache' :
          ~SameEntry(stream_data_cache, stream_data_cache', c) =>
             \E p \in Procs : Steps(p) /\ c \in {proc[p].channel_id, proc'[p].channel_id}
     /\ \A p \in Procs :
          (proc'[p].pc = "done" /\ proc[p].pc = "get" /\ proc[p].hop = "lookup") =>
             /\ proc[p].channel_id \in DOMAIN stream_data_cache'
             /\ stream_data_cache'[proc[p].channel_id] = proc'[p].result
     /\ (stream_data_cache' /= stream_data_cache \/ cache_file' /= cache_file) =>
          Persisted(cache_file', stream_data_cache', last_write')
     /\ (\A p \in Procs : proc'[p].pc = "done" /\ proc'[p].probe /= "valid") =>
          \A p, q \in Procs :
            (proc'[p].result.iframe_url = IframeOf(<< "1" >>)
               /\ proc'[q].result.iframe_url = IframeOf(<< "2" >>)) =>
              /\ {<< "1" >>, << "2" >>} \subseteq DOMAIN stream_data_cache'
              /\ stream_data_cache'[<< "1" >>] = proc'[p].result
              /\ stream_data_cache'[<< "2" >>] = proc'[q].result
              /\ Persisted(cache_file', stream_data_cache', last_write')]_vars

\* Two resolutions of different channels have both returned what the
\* pipeline resolved, and the file holds both results.
C24_Witness ==
  /\ \A p \in Procs : proc[p].pc = "done" /\ proc[p].probe /= "valid"
  /\ \E p, q \in Procs :
       /\ proc[p].result.iframe_url = IframeOf(<< "1" >>)
       /\ proc[q].result.iframe_url = IframeOf(<< "2" >>)
  /\ last_write = "ok"
  /\ DOMAIN _load_cache(cache_file).value = {<< "1" >>, << "2" >>}

\* C25: a resolution called with force_refresh = true issues no cache
\* probe and deletes no entry; until an endpoint attempt succeeds no step
\* of a resolution past its probe changes the cache map or the cache file,
\* so that a failed one leaves both as they were; the step of the success
\* replaces the entry of the channel by the result as a whole and leaves
\* the other entries.
C25_ForcedRefreshKeepsCache ==
  [][\A p \in Procs :
       /\ proc[p].pc = "idle" =>
            \A url \in Urls, w \in WriteOutcomes :
              LET st == extract(State, p, url, TRUE, w)
              IN  /\ st.proc[p].pc /= "head"
                  /\ st.proc[p].n_head = 0
                  /\ st.stream_data_cache = stream_data_cache
                  /\ st.cache_file = cache_file
                  /\ ~st.saved
       /\ (Steps(p) /\ proc[p].pc \in {"get", "sleep", "closing"}) =>
            IF proc'[p].pc = "done"
              THEN /\ proc[p].channel_id \in DOMAIN stream_data_cache'
                   /\ stream_data_cache'[proc[p].channel_id] = proc'[p].result
                   /\ \A c \in (DOMAIN stream_data_cache \cup DOMAIN stream_data_cache')
                                 \ {proc[p].channel_id} :
                        SameEntry(stream_data_cache, stream_data_cache', c)
              ELSE /\ stream_data_cache' = stream_data_cache
                   /\ cache_file' = cache_file]_vars

\* The one resolution of the extractor has failed at every endpoint, and
\* the entry its channel had before the call is in the map and in the
\* file: it was called with force_refresh = true.
C25_Witness ==
  \E p \in Procs :
    /\ proc[p].pc = "raised"
    /\ proc[p].error.origin = Len(endpoints)
    /\ stream_data_cache = Put(EmptyMap, << "1" >>, OldStream)
    /\ cache_file = Encoded(stream_data_cache)
    /\ last_write = "none"
    /\ \A q \in Procs \ {p} : proc[q].pc = "idle"

====
